---- MODULE Spec2Model ----
(***************************************************************************)
(* SimuladorCaidaLibre (src/alg.py): the free-fall simulator's fields, its *)
(* stepping loop simular_caida, pausar_simulacion, reiniciar_simulacion    *)
(* and the console handlers that change height, gravity and unit.          *)
(*                                                                         *)
(* Arithmetic.  The program computes in floating point; the model computes *)
(* the same formulas exactly, in fixed point: a height is held in           *)
(* twentieths of a metre, a gravity in tenths of m/s^2 and a time in        *)
(* seconds, so that 20*(h - 0.5*g*t^2) = altura - gravedad*t^2 is an        *)
(* integer.  sqrt(2h/g) is kept as the radicand it is the root of and is    *)
(* only ever compared, never rounded.                                       *)
(*                                                                         *)
(* Control.  simular_caida blocks its caller on time.sleep; the other       *)
(* methods can only act while it is suspended or between its steps, so one *)
(* activation of the loop is a program counter per caller (Hilos) and the  *)
(* other methods are single steps.                                         *)
(***************************************************************************)
EXTENDS Integers, Sequences, FiniteSets

VARIABLES
    altura_inicial,   \* self.altura_inicial
    gravedad,         \* self.gravedad
    unidad_altura,    \* self.unidad_altura
    tiempo,           \* self.tiempo
    en_ejecucion,     \* self.en_ejecucion
    tiempos,          \* self.tiempos
    alturas,          \* self.alturas
    pc,               \* per caller: where its activation of simular_caida stands
    duracion_total,   \* per caller: the local duracion_total
    intervalo,        \* per caller: the parameter intervalo
    tiempo_actual,    \* per caller: the local tiempo_actual
    aviso,            \* the last notification printed
    avisos            \* the landed / paused notifications printed since the last start banner

vars == <<altura_inicial, gravedad, unidad_altura, tiempo, en_ejecucion, tiempos,
          alturas, pc, duracion_total, intervalo, tiempo_actual, aviso, avisos>>

campos == <<altura_inicial, gravedad, unidad_altura, tiempo, en_ejecucion, tiempos, alturas>>

locales == <<pc, duracion_total, intervalo, tiempo_actual>>

(***************************************************************************)
(* Bounds of the model.                                                    *)
(***************************************************************************)
MaxAltura == 4
MaxGravedad == 2
MaxDuracion == 2
MaxIntervalo == 2
MaxMuestras == 3
MaxTiempo == 6

(***************************************************************************)
(* Program constants.                                                      *)
(***************************************************************************)
\* self.altura_inicial = 100 (metres), in twentieths of a metre
AlturaPorDefecto == 2000
\* self.gravedad = 9.8 (m/s^2), in tenths
GravedadPorDefecto == 98

Hilos == {1, 2}

\* self.factores_conversion
factores_conversion == {"m", "ft", "cm"}

\* a line typed at a numeric prompt: float() parses it (numero) or raises ValueError
Entrada(max) == [numero : {TRUE}, val : (-1)..max] \cup {[numero |-> FALSE, val |-> 0]}

\* the duracion_total argument: None (dada = FALSE) or a number
DuracionArgs == [dada : {TRUE}, val : 0..MaxDuracion] \cup {[dada |-> FALSE, val |-> 0]}

\* the intervalo argument; time.sleep treats every negative one alike
Intervalos == (-1)..MaxIntervalo

\* a duration: the number num (raiz = FALSE) or the square root of num/den (raiz = TRUE)
Numero(n) == [raiz |-> FALSE, num |-> n, den |-> 1]

SinLocales == Numero(0)

Max(a, b) == IF a >= b THEN a ELSE b

\* math.sqrt(2 * self.altura_inicial / self.gravedad)
calcular_tiempo_total == [raiz |-> TRUE, num |-> altura_inicial, den |-> gravedad]

\* the position without its floor: altura_inicial - 0.5 * gravedad * t ** 2
PosicionSinSuelo(t) == altura_inicial - gravedad * t * t

\* max(0, self.altura_inicial - 0.5 * self.gravedad * tiempo_actual ** 2)
calcular_posicion_actual(t) == Max(0, altura_inicial - gravedad * t * t)

\* tiempo_actual <= duracion_total
MenorIgual(t, d) ==
    IF d.raiz THEN t <= 0 \/ t * t * d.den <= d.num
    ELSE t <= d.num

\* print of a notification
Emitir(k) ==
    /\ aviso' = k
    /\ avisos' = IF k \in {"suelo", "pausada"} THEN avisos \cup {k} ELSE avisos

Init ==
    /\ altura_inicial = AlturaPorDefecto
    /\ gravedad = GravedadPorDefecto
    /\ unidad_altura = "m"
    /\ tiempo = 0
    /\ en_ejecucion = FALSE
    /\ tiempos = <<>>
    /\ alturas = <<>>
    /\ pc = [h \in Hilos |-> "idle"]
    /\ duracion_total = [h \in Hilos |-> SinLocales]
    /\ intervalo = [h \in Hilos |-> 0]
    /\ tiempo_actual = [h \in Hilos |-> 0]
    /\ aviso = "nada"
    /\ avisos = {}

(***************************************************************************)
(* simular_caida                                                           *)
(***************************************************************************)
\* lines 76-89: the call, up to the loop
Iniciar(h, d, i) ==
    /\ pc[h] = "idle"
    /\ duracion_total' = [duracion_total EXCEPT ![h] =
                             IF d.dada THEN Numero(d.val) ELSE calcular_tiempo_total]
    /\ intervalo' = [intervalo EXCEPT ![h] = i]
    /\ en_ejecucion' = TRUE
    /\ tiempos' = <<>>
    /\ alturas' = <<>>
    /\ tiempo_actual' = [tiempo_actual EXCEPT ![h] = 0]
    /\ aviso' = "iniciando"
    /\ avisos' = {}
    /\ pc' = [pc EXCEPT ![h] = "while"]
    /\ UNCHANGED <<altura_inicial, gravedad, unidad_altura, tiempo>>

\* line 91, the condition false: the loop is left
Salir(h) ==
    /\ pc[h] = "while"
    /\ ~(MenorIgual(tiempo_actual[h], duracion_total[h]) /\ en_ejecucion)
    /\ pc' = [pc EXCEPT ![h] = "fin"]
    /\ UNCHANGED <<campos, duracion_total, intervalo, tiempo_actual, aviso, avisos>>

\* the tick without the break of line 109
TickSinBreak(h) ==
    /\ pc[h] = "while"
    /\ MenorIgual(tiempo_actual[h], duracion_total[h]) /\ en_ejecucion
    /\ intervalo[h] = 0 => Len(tiempos) < MaxMuestras
    /\ LET altura_actual == calcular_posicion_actual(tiempo_actual[h])
       IN  /\ tiempos' = Append(tiempos, tiempo_actual[h])
           /\ alturas' = Append(alturas, altura_actual)
           /\ IF altura_actual <= 0
              THEN Emitir("suelo")
              ELSE UNCHANGED <<aviso, avisos>>
           /\ pc' = [pc EXCEPT ![h] = "sleep"]
    /\ UNCHANGED <<altura_inicial, gravedad, unidad_altura, tiempo, en_ejecucion,
                   duracion_total, intervalo, tiempo_actual>>

\* lines 91-109: one tick, from the condition to the landing check
Tick(h) ==
    /\ pc[h] = "while"
    /\ MenorIgual(tiempo_actual[h], duracion_total[h]) /\ en_ejecucion
    /\ intervalo[h] = 0 => Len(tiempos) < MaxMuestras
    /\ LET altura_actual == calcular_posicion_actual(tiempo_actual[h])
       IN  /\ tiempos' = Append(tiempos, tiempo_actual[h])
           /\ alturas' = Append(alturas, altura_actual)
           /\ IF altura_actual <= 0
              THEN /\ Emitir("suelo")
                   /\ pc' = [pc EXCEPT ![h] = "fin"]
              ELSE /\ UNCHANGED <<aviso, avisos>>
                   /\ pc' = [pc EXCEPT ![h] = "sleep"]
    /\ UNCHANGED <<altura_inicial, gravedad, unidad_altura, tiempo, en_ejecucion,
                   duracion_total, intervalo, tiempo_actual>>

\* the step with tiempo_actual -= intervalo
DormirAtras(h) ==
    /\ pc[h] = "sleep"
    /\ intervalo[h] >= 0
    /\ tiempo_actual' = [tiempo_actual EXCEPT ![h] = tiempo_actual[h] - intervalo[h]]
    /\ pc' = [pc EXCEPT ![h] = "while"]
    /\ UNCHANGED <<campos, duracion_total, intervalo, aviso, avisos>>

\* lines 112-113: time.sleep(intervalo), which raises ValueError on a negative
\* argument and so ends the call before line 115, then tiempo_actual += intervalo
Dormir(h) ==
    /\ pc[h] = "sleep"
    /\ IF intervalo[h] < 0
       THEN /\ Emitir("ValueError")
            /\ pc' = [pc EXCEPT ![h] = "idle"]
            /\ duracion_total' = [duracion_total EXCEPT ![h] = SinLocales]
            /\ intervalo' = [intervalo EXCEPT ![h] = 0]
            /\ tiempo_actual' = [tiempo_actual EXCEPT ![h] = 0]
       ELSE /\ tiempo_actual' = [tiempo_actual EXCEPT ![h] = tiempo_actual[h] + intervalo[h]]
            /\ pc' = [pc EXCEPT ![h] = "while"]
            /\ UNCHANGED <<duracion_total, intervalo, aviso, avisos>>
    /\ UNCHANGED campos

\* the return without line 115
FinalizarSinBajar(h) ==
    /\ pc[h] = "fin"
    /\ Emitir("finalizada")
    /\ pc' = [pc EXCEPT ![h] = "idle"]
    /\ duracion_total' = [duracion_total EXCEPT ![h] = SinLocales]
    /\ intervalo' = [intervalo EXCEPT ![h] = 0]
    /\ tiempo_actual' = [tiempo_actual EXCEPT ![h] = 0]
    /\ UNCHANGED campos

\* lines 115-116, and the return: the locals are gone
Finalizar(h) ==
    /\ pc[h] = "fin"
    /\ en_ejecucion' = FALSE
    /\ Emitir("finalizada")
    /\ pc' = [pc EXCEPT ![h] = "idle"]
    /\ duracion_total' = [duracion_total EXCEPT ![h] = SinLocales]
    /\ intervalo' = [intervalo EXCEPT ![h] = 0]
    /\ tiempo_actual' = [tiempo_actual EXCEPT ![h] = 0]
    /\ UNCHANGED <<altura_inicial, gravedad, unidad_altura, tiempo, tiempos, alturas>>

(***************************************************************************)
(* pausar_simulacion, reiniciar_simulacion                                 *)
(***************************************************************************)
\* lines 118-121
Pausar ==
    /\ en_ejecucion' = FALSE
    /\ Emitir("pausada")
    /\ UNCHANGED <<altura_inicial, gravedad, unidad_altura, tiempo, tiempos, alturas, locales>>

\* the reset without line 128
ReiniciarSinLimpiar ==
    /\ en_ejecucion' = FALSE
    /\ tiempo' = 0
    /\ tiempos' = <<>>
    /\ aviso' = "reiniciada"
    /\ avisos' = avisos \cup {"pausada"}
    /\ UNCHANGED <<altura_inicial, gravedad, unidad_altura, alturas, locales>>

\* lines 123-129: pausar_simulacion() and its print, the fields, the second print
Reiniciar ==
    /\ en_ejecucion' = FALSE
    /\ tiempo' = 0
    /\ tiempos' = <<>>
    /\ alturas' = <<>>
    /\ aviso' = "reiniciada"
    /\ avisos' = avisos \cup {"pausada"}
    /\ UNCHANGED <<altura_inicial, gravedad, unidad_altura, locales>>

(***************************************************************************)
(* interfaz_consola: the handlers that change the parameters.  The console *)
(* is caller 1; it reads a menu option only when it is not inside          *)
(* simular_caida.                                                          *)
(***************************************************************************)
\* option 5 with nueva_altura >= 0 for its test
CambiarAlturaDesdeCero(e) ==
    /\ pc[1] = "idle"
    /\ IF e.numero /\ e.val >= 0
       THEN altura_inicial' = e.val /\ Emitir("altura_cambiada")
       ELSE /\ UNCHANGED altura_inicial
            /\ Emitir(IF e.numero THEN "altura_invalida" ELSE "numero_invalido")
    /\ UNCHANGED <<gravedad, unidad_altura, tiempo, en_ejecucion, tiempos, alturas, locales>>

\* option 5
CambiarAltura(e) ==
    /\ pc[1] = "idle"
    /\ IF e.numero /\ e.val > 0
       THEN altura_inicial' = e.val /\ Emitir("altura_cambiada")
       ELSE /\ UNCHANGED altura_inicial
            /\ Emitir(IF e.numero THEN "altura_invalida" ELSE "numero_invalido")
    /\ UNCHANGED <<gravedad, unidad_altura, tiempo, en_ejecucion, tiempos, alturas, locales>>

\* option 6
CambiarGravedad(e) ==
    /\ pc[1] = "idle"
    /\ IF e.numero /\ e.val > 0
       THEN gravedad' = e.val /\ Emitir("gravedad_cambiada")
       ELSE /\ UNCHANGED gravedad
            /\ Emitir(IF e.numero THEN "gravedad_invalida" ELSE "numero_invalido")
    /\ UNCHANGED <<altura_inicial, unidad_altura, tiempo, en_ejecucion, tiempos, alturas, locales>>

\* option 7
CambiarUnidad(u) ==
    /\ pc[1] = "idle"
    /\ IF u \in factores_conversion
       THEN unidad_altura' = u /\ Emitir("unidad_cambiada")
       ELSE UNCHANGED unidad_altura /\ Emitir("unidad_invalida")
    /\ UNCHANGED <<altura_inicial, gravedad, tiempo, en_ejecucion, tiempos, alturas, locales>>

Paso(h) == Salir(h) \/ Tick(h) \/ Dormir(h) \/ Finalizar(h)

Entorno ==
    \/ Pausar
    \/ Reiniciar
    \/ \E e \in Entrada(MaxAltura) : CambiarAltura(e)
    \/ \E e \in Entrada(MaxGravedad) : CambiarGravedad(e)
    \/ \E u \in factores_conversion \cup {"km"} : CambiarUnidad(u)

\* one caller of simular_caida at a time
Next ==
    \/ \E d \in DuracionArgs, i \in Intervalos : Iniciar(1, d, i)
    \/ Paso(1)
    \/ Entorno

Spec == Init /\ [][Next]_vars

\* the loop's caller is scheduled: time.sleep returns and the next statement runs
SpecJusto == Spec /\ WF_vars(Paso(1))

\* simular_caida entered again, by a second caller, while an activation is in its loop
NextReentrante ==
    \/ \E h \in Hilos : \E d \in DuracionArgs, i \in Intervalos : Iniciar(h, d, i)
    \/ \E h \in Hilos : Paso(h)
    \/ Pausar
    \/ Reiniciar

SpecReentrante == Init /\ [][NextReentrante]_vars

(***************************************************************************)
(* Properties                                                              *)
(***************************************************************************)
Ultima(s) == s[Len(s)]

EnCurso(h) == pc[h] # "idle"

\* C1: in a run with intervalo > 0, consecutive recorded times strictly increase
\* and consecutive recorded heights never increase, the landing sample included.
C1_TrayectoriaOrdenada ==
    (EnCurso(1) /\ intervalo[1] > 0) =>
        /\ \A k \in 1..(Len(tiempos) - 1) : tiempos[k + 1] > tiempos[k]
        /\ \A k \in 1..(Len(alturas) - 1) : alturas[k + 1] <= alturas[k]

C1_Testigo ==
    /\ pc[1] = "fin"
    /\ intervalo[1] > 0
    /\ Len(alturas) >= 3
    /\ Ultima(alturas) = 0
    /\ alturas[1] > alturas[2]
    /\ tiempos[2] > tiempos[1]

\* C2: a recorded height of 0 is the last sample; the landed notification has
\* been printed and the loop has been left, so no sample follows it.
C2_CeroEsUltima ==
    \A k \in 1..Len(alturas) :
        alturas[k] = 0 =>
            /\ k = Len(alturas)
            /\ "suelo" \in avisos
            /\ pc[1] \in {"fin", "idle"}

C2_Testigo ==
    /\ Len(alturas) >= 2
    /\ Ultima(alturas) = 0
    /\ pc[1] = "idle"
    /\ ~en_ejecucion
    /\ aviso = "finalizada"

\* C3: reiniciar_simulacion, whatever the state it is called in, leaves
\* en_ejecucion false, both lists empty and tiempo 0 and does not touch height,
\* gravity or unit; the lists stay empty until the next notification.
C3_Reinicio ==
    /\ [](aviso = "reiniciada" =>
            ~en_ejecucion /\ tiempos = <<>> /\ alturas = <<>> /\ tiempo = 0)
    /\ [][Reiniciar =>
            /\ ~en_ejecucion' /\ tiempos' = <<>> /\ alturas' = <<>> /\ tiempo' = 0
            /\ UNCHANGED <<altura_inicial, gravedad, unidad_altura>>]_vars

\* a reset that arrived while the loop was suspended in a run that had recorded
\* samples, with parameters other than the constructor's
C3_Testigo ==
    /\ aviso = "reiniciada"
    /\ pc[1] = "sleep"
    /\ tiempo_actual[1] > 0
    /\ tiempos = <<>>
    /\ altura_inicial # AlturaPorDefecto
    /\ unidad_altura # "m"

\* C4: simular_caida with intervalo <= 0 is rejected at the call: no activation
\* of the loop ever runs with such an interval.
C4_IntervaloRechazado ==
    \A h \in Hilos : EnCurso(h) => intervalo[h] > 0

EntradaInvalida(e) == ~(e.numero /\ e.val > 0)

\* C5: height and gravity stay > 0 whatever is typed, and a rejected height or
\* gravity changes no field and no activation of the loop.
C5_ConfiguracionValidada ==
    /\ [](altura_inicial > 0 /\ gravedad > 0)
    /\ [][(\/ \E e \in Entrada(MaxAltura) : EntradaInvalida(e) /\ CambiarAltura(e)
           \/ \E e \in Entrada(MaxGravedad) : EntradaInvalida(e) /\ CambiarGravedad(e))
          => UNCHANGED <<campos, locales>>]_vars

\* a rejected entry after both parameters were changed and a run was recorded
C5_Testigo ==
    /\ aviso \in {"altura_invalida", "gravedad_invalida"}
    /\ altura_inicial # AlturaPorDefecto
    /\ gravedad # GravedadPorDefecto
    /\ Len(tiempos) >= 2

\* C6: after pausar_simulacion in a run (of intervalo > 0), no tick begins and
\* the run does not end as finished.
C6_PausaTerminaEnPausa ==
    [][("pausada" \in avisos /\ EnCurso(1) /\ intervalo[1] > 0) =>
            /\ ~Tick(1)
            /\ aviso' # "finalizada"]_vars

\* C7: pausar_simulacion with nothing running changes neither the flag nor
\* the lists, and simular_caida entered (with intervalo > 0) while an activation
\* (of intervalo > 0) is in its loop does not clear the lists nor touch that
\* activation's time.
C7_OperacionInvalidaRechazada ==
    [][/\ (Pausar /\ ~en_ejecucion /\ \A h \in Hilos : ~EnCurso(h))
            => UNCHANGED <<en_ejecucion, tiempos, alturas>>
       /\ \A h \in Hilos :
            (/\ \E k \in Hilos : k # h /\ EnCurso(k) /\ intervalo[k] > 0 /\ en_ejecucion
             /\ ~EnCurso(h) /\ EnCurso(h)' /\ intervalo'[h] > 0)
            => UNCHANGED <<tiempos, alturas, tiempo_actual>>]_vars

\* C8: a run with intervalo > 0 ends, with en_ejecucion false and the finished
\* notification; every recorded time is <= duracion_total, and a loop left
\* because tiempo_actual > duracion_total has printed no landed notification.
C8_Seguro ==
    (EnCurso(1) /\ intervalo[1] > 0) =>
        /\ \A k \in 1..Len(tiempos) : MenorIgual(tiempos[k], duracion_total[1])
        /\ (pc[1] = "fin" /\ ~MenorIgual(tiempo_actual[1], duracion_total[1]))
               => "suelo" \notin avisos

C8_Termina ==
    /\ []C8_Seguro
    /\ (EnCurso(1) /\ intervalo[1] > 0)
           ~> (~EnCurso(1) /\ ~en_ejecucion /\ aviso = "finalizada")

\* the loop left on time, unpaused, after several samples and no landing
C8_Testigo ==
    /\ pc[1] = "fin"
    /\ intervalo[1] > 0
    /\ en_ejecucion
    /\ ~MenorIgual(tiempo_actual[1], duracion_total[1])
    /\ Len(tiempos) >= 2
    /\ Ultima(alturas) > 0
    /\ "suelo" \notin avisos

\* C9: for the stored height and gravity, the position at t >= 0 is within
\* 0..altura_inicial, never increases with t, is 0 exactly when
\* t^2 >= 2*altura/gravedad and is > 0 before.
C9_Posicion ==
    \A t \in 0..MaxTiempo :
        /\ calcular_posicion_actual(t) >= 0
        /\ calcular_posicion_actual(t) <= altura_inicial
        /\ \A u \in t..MaxTiempo : calcular_posicion_actual(u) <= calcular_posicion_actual(t)
        /\ (calcular_posicion_actual(t) = 0) <=> (gravedad * t * t >= altura_inicial)
        /\ (gravedad * t * t < altura_inicial) => calcular_posicion_actual(t) > 0

\* the function applied by a run, below, at and (by the bound) past the fall time
C9_Testigo ==
    /\ altura_inicial = 4
    /\ gravedad = 1
    /\ alturas = <<4, 3, 0>>
    /\ calcular_posicion_actual(3) = 0

\* C10: a run with duracion_total absent and intervalo > 0, not paused, leaves
\* its loop with a last sample of height 0 and the landed notification printed.
C10_AterrizaSiempre ==
    (pc[1] = "fin" /\ duracion_total[1].raiz /\ intervalo[1] > 0 /\ "pausada" \notin avisos) =>
        /\ Len(alturas) > 0
        /\ Ultima(alturas) = 0
        /\ "suelo" \in avisos

====
